---------------------------- MODULE Spec2Model ----------------------------
(***************************************************************************)
(* ClothesFinder (src/main.py): the request coordinator                    *)
(* find_best_across_sites with its cache, the site adapters, the product   *)
(* page enrichment and the scorer.                                         *)
(*                                                                         *)
(* Conventions of the translation                                          *)
(*  - Python str is a TLA+ string; `a in t` is IsSub(a, t).                *)
(*  - Python None for a string-valued key is "" (the code only tests such  *)
(*    values for truthiness); None for a number or a dict is the empty     *)
(*    tuple <<>> and a present value v is <<v>>.                           *)
(*  - Python True / False / None of the tri-state kids flag are the        *)
(*    strings "True" / "False" / "None".                                   *)
(*  - Ratings and weights are in hundredths of a point (30 points = 3000), *)
(*    so that 7.5 and the two-decimal rounding of the code stay integers.  *)
(*  - A dict built key by key (breakdown) is a function on its keys.       *)
(***************************************************************************)
EXTENDS Integers, Sequences, FiniteSets, TLC

(***************************************************************************)
(* CONFIG (src/main.py 17-23)                                              *)
(***************************************************************************)
CACHE_TTL == 300
TOP_PER_SITE == 8
SEARCH_TIMEOUT == 30
ENRICH_TIMEOUT == 60

(***************************************************************************)
(* Optional values                                                         *)
(***************************************************************************)
NoneV == <<>>
Some(v) == <<v>>
IsNone(m) == m = <<>>
Get(m) == m[1]

(***************************************************************************)
(* Characters and strings                                                  *)
(***************************************************************************)
UpperChars == "ABCDEFGHIJKLMNOPQRSTUVWXYZÅÄÖ"
LowerChars == "abcdefghijklmnopqrstuvwxyzåäö"
DigitChars == "0123456789"
AsciiLetters == "abcdefghijklmnopqrstuvwxyzABCDEFGHIJKLMNOPQRSTUVWXYZ"

\* t[i] as a one-character string, "" outside the string
At(t, i) == IF 1 <= i /\ i <= Len(t) THEN SubSeq(t, i, i) ELSE ""

\* position of the one-character string c in s, 0 when absent
IndexOf(c, s) ==
    IF \E i \in 1..Len(s) : SubSeq(s, i, i) = c
    THEN CHOOSE i \in 1..Len(s) : SubSeq(s, i, i) = c
    ELSE 0

\* Python: a in t
IsSub(a, t) ==
    \E i \in 1..(Len(t) - Len(a) + 1) : SubSeq(t, i, i + Len(a) - 1) = a

StartsWith(t, a) == Len(a) <= Len(t) /\ SubSeq(t, 1, Len(a)) = a

IsDigit(c) == c # "" /\ IndexOf(c, DigitChars) > 0
IsSpace(c) == c = " "
\* \w of a Python 3 str pattern: letters (Unicode), digits, underscore
IsWordChar(c) ==
    c # "" /\ (IndexOf(c, DigitChars) > 0 \/ IndexOf(c, LowerChars) > 0
               \/ IndexOf(c, UpperChars) > 0 \/ c = "_")
IsAsciiLetter(c) == c # "" /\ IndexOf(c, AsciiLetters) > 0

\* \b between t[i] and t[i+1] (i = 0: before the text, i = Len(t): after it)
WordBoundary(t, i) == IsWordChar(At(t, i)) # IsWordChar(At(t, i + 1))

LowerChar(c) ==
    IF IndexOf(c, UpperChars) > 0
    THEN At(LowerChars, IndexOf(c, UpperChars))
    ELSE c

UpperChar(c) ==
    IF IndexOf(c, LowerChars) > 0
    THEN At(UpperChars, IndexOf(c, LowerChars))
    ELSE c

RECURSIVE Lower(_)
\* str.lower()
Lower(s) ==
    IF Len(s) = 0 THEN ""
    ELSE LowerChar(At(s, 1)) \o Lower(SubSeq(s, 2, Len(s)))

RECURSIVE Upper(_)
\* str.upper()
Upper(s) ==
    IF Len(s) = 0 THEN ""
    ELSE UpperChar(At(s, 1)) \o Upper(SubSeq(s, 2, Len(s)))

RECURSIVE LStrip(_)
LStrip(s) ==
    IF Len(s) > 0 /\ IsSpace(At(s, 1)) THEN LStrip(SubSeq(s, 2, Len(s))) ELSE s

RECURSIVE RStrip(_)
RStrip(s) ==
    IF Len(s) > 0 /\ IsSpace(At(s, Len(s)))
    THEN RStrip(SubSeq(s, 1, Len(s) - 1))
    ELSE s

\* str.strip()
Strip(s) == LStrip(RStrip(s))

RECURSIVE CollapseSpaces(_)
\* re.sub(r'\s+', ' ', t)
CollapseSpaces(s) ==
    IF Len(s) = 0 THEN ""
    ELSE IF IsSpace(At(s, 1)) /\ IsSpace(At(s, 2))
         THEN CollapseSpaces(SubSeq(s, 2, Len(s)))
         ELSE At(s, 1) \o CollapseSpaces(SubSeq(s, 2, Len(s)))

\* clean_text (55-58)
clean_text(t) == Strip(CollapseSpaces(t))

\* str.isdigit()
IsDigitStr(s) == Len(s) > 0 /\ \A i \in 1..Len(s) : IsDigit(At(s, i))

RECURSIVE DigitsOf(_)
\* re.sub(r'[^\d]', '', raw)
DigitsOf(s) ==
    IF Len(s) = 0 THEN ""
    ELSE (IF IsDigit(At(s, 1)) THEN At(s, 1) ELSE "")
         \o DigitsOf(SubSeq(s, 2, Len(s)))

RECURSIVE ToInt(_)
\* int(s) of a string of digits
ToInt(s) ==
    IF Len(s) = 0 THEN 0
    ELSE 10 * ToInt(SubSeq(s, 1, Len(s) - 1)) + (IndexOf(At(s, Len(s)), DigitChars) - 1)

RECURSIVE ToStr(_)
\* str(n) of a natural number
ToStr(n) ==
    IF n < 10 THEN At(DigitChars, n + 1)
    ELSE ToStr(n \div 10) \o At(DigitChars, (n % 10) + 1)

\* number of digits of t starting at position i
RECURSIVE DigitRun(_, _)
DigitRun(t, i) == IF IsDigit(At(t, i)) THEN 1 + DigitRun(t, i + 1) ELSE 0

\* number of whitespace characters of t starting at position i
RECURSIVE SpaceRun(_, _)
SpaceRun(t, i) == IF IsSpace(At(t, i)) THEN 1 + SpaceRun(t, i + 1) ELSE 0

\* number of word characters of t starting at position i
RECURSIVE WordRun(_, _)
WordRun(t, i) == IF IsWordChar(At(t, i)) THEN 1 + WordRun(t, i + 1) ELSE 0

RECURSIVE WordsFrom(_, _)
\* the maximal runs of word characters of t from position i on, in order
WordsFrom(t, i) ==
    IF i > Len(t) THEN <<>>
    ELSE IF IsWordChar(At(t, i))
         THEN <<SubSeq(t, i, i + WordRun(t, i) - 1)>> \o WordsFrom(t, i + WordRun(t, i))
         ELSE WordsFrom(t, i + 1)

Words(t) == WordsFrom(t, 1)

Min(S) == CHOOSE x \in S : \A y \in S : x <= y


(***************************************************************************)
(* SYNONYMS (74-112) and text_contains_term (114-128)                      *)
(***************************************************************************)
SYNONYMS ==
       ("byxor" :> <<"byxa", "byxor", "pants", "träningsbyxor", "joggers", "mjukisbyxor", "mysbyxor">>)
    @@ ("jeans" :> <<"jeans", "denim", "jeansen", "levis", "501">>)
    @@ ("hoodie" :> <<"hoodie", "luvtröja", "hoodtröja", "zip hoodie", "hoodie med dragkedja", "hood med dragkedja">>)
    @@ ("tröja" :> <<"tröja", "tröjor", "pullover", "sweater", "överdel", "top">>)
    @@ ("t-shirt" :> <<"t-shirt", "tshirt", "tee", "kortärmad tröja", "t shirt">>)
    @@ ("jacka" :> <<"jacka", "jackor", "coat", "puffer", "bomber", "anorak", "windbreaker">>)
    @@ ("baggy" :> <<"baggy", "loose", "oversized", "wide">>)
    @@ ("skinny" :> <<"skinny", "tight", "slim", "slimfit">>)
    @@ ("träning" :> <<"träning", "tränings", "sport", "gym", "athletic", "track", "training">>)
    @@ ("mjukis" :> <<"mjukis", "mys", "lounge", "casual", "soft", "relax">>)
    @@ ("utomhus" :> <<"utomhus", "outdoor", "friluft", "vandrings", "hiking">>)
    @@ ("luvtröja" :> <<"luvtröja", "hoodie med dragkedja", "zip hoodie">>)
    @@ ("svart" :> <<"svart", "svarta", "black", "dark", "mörk">>)
    @@ ("vit" :> <<"vit", "vita", "white", "offwhite", "ljus">>)
    @@ ("blå" :> <<"blå", "blåa", "blue", "navy", "denim">>)
    @@ ("grå" :> <<"grå", "gråa", "gray", "grey", "ljusgrå">>)
    @@ ("beige" :> <<"beige", "sand", "cream", "offwhite">>)
    @@ ("röd" :> <<"röd", "röda", "red", "rosa">>)
    @@ ("grön" :> <<"grön", "gröna", "green", "oliv", "khaki">>)
    @@ ("adidas" :> <<"adidas", "adidass", "addiadas">>)
    @@ ("nike" :> <<"nike", "nikE", "nikke">>)
    @@ ("levi" :> <<"levi", "levis", "levi's">>)
    @@ ("herr" :> <<"herr", "man", "men", "male">>)
    @@ ("dam" :> <<"dam", "kvinna", "women", "female">>)
    @@ ("unisex" :> <<"unisex", "både", "alla">>)
    @@ ("barn" :> <<"barn", "kids", "junior", "pojke", "flicka", "child", "baby", "youth">>)

\* SYNONYMS.get(term, [])
SynonymsOf(term) == IF term \in DOMAIN SYNONYMS THEN SYNONYMS[term] ELSE <<>>

\* any(a in t for a in alts)
AnyIn(alts, t) == \E k \in 1..Len(alts) : IsSub(alts[k], t)

text_contains_term(title, term) ==
    IF term = "" THEN FALSE
    ELSE LET t  == Lower(clean_text(title))
             tm == Lower(term)
         IN  IsSub(tm, t) \/ AnyIn(SynonymsOf(tm), t)

(***************************************************************************)
(* SIZE HANDLING (132-196)                                                 *)
(***************************************************************************)
JeansSepChars == "l|:x/"

\* After position p: \s*[l|:x\/\s]\s* ; the position where the second number
\* must start, 0 when the separator does not match.
JeansSepEnd(t, p, seps) ==
    LET k == SpaceRun(t, p)
        q == p + k
    IN  IF At(t, q) # "" /\ IndexOf(At(t, q), seps) > 0
        THEN q + 1 + SpaceRun(t, q + 1)
        ELSE IF k >= 1 THEN q ELSE 0

\* r'w\s?(\d{2,3})\s*[l|:x\/\s]\s*(\d{2,3})' matched at position i:
\* <<waist, length>> or <<>>
JeansWMatchAt(t, i) ==
    IF At(t, i) # "w" THEN <<>>
    ELSE LET p  == IF IsSpace(At(t, i + 1)) THEN i + 2 ELSE i + 1
             d1 == DigitRun(t, p)
         IN  IF d1 < 2 \/ d1 > 3 THEN <<>>
             ELSE LET q  == JeansSepEnd(t, p + d1, JeansSepChars)
                      d2 == IF q = 0 THEN 0 ELSE DigitRun(t, q)
                      n2 == IF d2 > 3 THEN 3 ELSE d2
                  IN  IF q = 0 \/ d2 < 2 THEN <<>>
                      ELSE <<ToInt(SubSeq(t, p, p + d1 - 1)),
                             ToInt(SubSeq(t, q, q + n2 - 1))>>

\* r'\b(\d{2})\s*[/x\s]\s*(\d{2})\b' matched at position i
JeansPairMatchAt(t, i) ==
    IF ~(WordBoundary(t, i - 1) /\ IsDigit(At(t, i)) /\ IsDigit(At(t, i + 1)))
    THEN <<>>
    ELSE LET q == JeansSepEnd(t, i + 2, "/x")
         IN  IF q = 0 THEN <<>>
             ELSE IF IsDigit(At(t, q)) /\ IsDigit(At(t, q + 1)) /\ WordBoundary(t, q + 1)
                  THEN <<ToInt(SubSeq(t, i, i + 1)), ToInt(SubSeq(t, q, q + 1))>>
                  ELSE <<>>

\* r'\b(\d{2})\b' matched at position i
TwoDigitTokenAt(t, i) ==
    /\ WordBoundary(t, i - 1)
    /\ IsDigit(At(t, i)) /\ IsDigit(At(t, i + 1))
    /\ WordBoundary(t, i + 1)

\* re.search: the leftmost of the positions where the pattern matches, 0
\* when there is none
FirstPos(hits) ==
    IF hits = {} THEN 0
    ELSE CHOOSE i \in hits : \A j \in hits : i <= j

JeansWAt(t, i) == JeansWMatchAt(t, i) # <<>>
JeansPairAt(t, i) == JeansPairMatchAt(t, i) # <<>>

\* parse_jeans_size_from_text (132-166): None, or {"waist", "length"} with
\* length None when only a waist was found
parse_jeans_size_from_text(text) ==
    IF text = "" THEN NoneV
    ELSE LET t  == Lower(text)
             i1 == FirstPos({i \in 1..Len(t) : JeansWAt(t, i)})
             i2 == FirstPos({i \in 1..Len(t) : JeansPairAt(t, i)})
             i3 == FirstPos({i \in 1..Len(t) : TwoDigitTokenAt(t, i)})
         IN  IF i1 > 0
             THEN Some([waist |-> JeansWMatchAt(t, i1)[1], length |-> Some(JeansWMatchAt(t, i1)[2])])
             ELSE IF i2 > 0
             THEN Some([waist |-> JeansPairMatchAt(t, i2)[1], length |-> Some(JeansPairMatchAt(t, i2)[2])])
             ELSE IF i3 > 0 /\ ToInt(SubSeq(t, i3, i3 + 1)) >= 26 /\ ToInt(SubSeq(t, i3, i3 + 1)) <= 44
             THEN Some([waist |-> ToInt(SubSeq(t, i3, i3 + 1)), length |-> NoneV])
             ELSE NoneV

\* waist_to_text_size (168-184)
waist_to_text_size(w) ==
    IF w <= 28 THEN "XS"
    ELSE IF w <= 30 THEN "S"
    ELSE IF w <= 32 THEN "M"
    ELSE IF w <= 34 THEN "L"
    ELSE IF w <= 36 THEN "XL"
    ELSE "XXL"

\* r'\b(9[0-9]|1[0-7][0-9])\b' matched at position i
KidsSizeAt(t, i) ==
    /\ WordBoundary(t, i - 1)
    /\ \/ At(t, i) = "9" /\ IsDigit(At(t, i + 1)) /\ WordBoundary(t, i + 1)
       \/ /\ At(t, i) = "1"
          /\ At(t, i + 1) # "" /\ IndexOf(At(t, i + 1), "01234567") > 0
          /\ IsDigit(At(t, i + 2))
          /\ WordBoundary(t, i + 2)

KidsWords == <<"barn", "kids", "junior", "pojke", "flicka", "baby">>

\* is_kids_size_in_text (186-196)
is_kids_size_in_text(text) ==
    IF text = "" THEN FALSE
    ELSE LET t == clean_text(text)
         IN  (\E i \in 1..Len(t) : KidsSizeAt(t, i)) \/ AnyIn(KidsWords, t)

(***************************************************************************)
(* PRICE EXTRACTION (199-232)                                              *)
(***************************************************************************)
PriceClassChars == "0123456789 .,"
CurrencyMarkers == <<"kr", ":-", "sek">>

\* characters of [\d\s\.,] starting at position i
RECURSIVE PriceClassRun(_, _)
PriceClassRun(t, i) ==
    IF At(t, i) # "" /\ IndexOf(At(t, i), PriceClassChars) > 0
    THEN 1 + PriceClassRun(t, i + 1)
    ELSE 0

\* the last position in i..j that holds a digit (i holds one)
RECURSIVE LastDigit(_, _, _)
LastDigit(t, i, j) ==
    IF j <= i THEN i
    ELSE IF IsDigit(At(t, j)) THEN j ELSE LastDigit(t, i, j - 1)

\* (kr|:-|sek)\b at position p, case-insensitive: the marker's length, 0 when none
MarkerLenAt(t, p) ==
    LET fits(k) == /\ Lower(SubSeq(t, p, p + Len(CurrencyMarkers[k]) - 1)) = CurrencyMarkers[k]
                   /\ WordBoundary(t, p + Len(CurrencyMarkers[k]) - 1)
        ok(k)   == p + Len(CurrencyMarkers[k]) - 1 <= Len(t) /\ fits(k)
    IN  IF \E k \in 1..Len(CurrencyMarkers) : ok(k)
        THEN Len(CurrencyMarkers[CHOOSE k \in 1..Len(CurrencyMarkers) :
                                   ok(k) /\ \A k2 \in 1..(k - 1) : ~ok(k2)])
        ELSE 0

\* r'(\d[\d\s\.,]*\d)\s*(kr|:-|sek)\b' matched at position i:
\* <<position of the last digit of the number, position after the match>> or <<>>.
\* The class run is greedy and gives characters back until it ends on a digit
\* that only whitespace separates from the marker.
CurrencyMatchAt(t, i) ==
    IF ~IsDigit(At(t, i)) THEN <<>>
    ELSE LET j == i + PriceClassRun(t, i) - 1
             e == LastDigit(t, i, j)
             p == e + 1 + SpaceRun(t, e + 1)
         IN  IF e > i /\ p > j /\ MarkerLenAt(t, p) > 0
             THEN <<e, p + MarkerLenAt(t, p)>>
             ELSE <<>>

RECURSIVE CurrencyNumbers(_, _)
\* re.findall of the currency pattern from position i on: the numbers, with
\* every non-digit removed
CurrencyNumbers(t, i) ==
    IF i > Len(t) THEN {}
    ELSE IF CurrencyMatchAt(t, i) # <<>>
         THEN {ToInt(DigitsOf(SubSeq(t, i, CurrencyMatchAt(t, i)[1])))}
              \cup CurrencyNumbers(t, CurrencyMatchAt(t, i)[2])
         ELSE CurrencyNumbers(t, i + 1)

\* r'\b(\d{3,5})\b': the standalone numbers of 3 to 5 digits
StandaloneNumbers(t) ==
    { ToInt(SubSeq(t, i, i + DigitRun(t, i) - 1)) :
        i \in { k \in 1..Len(t) : /\ WordBoundary(t, k - 1)
                                  /\ IsDigit(At(t, k))
                                  /\ DigitRun(t, k) >= 3 /\ DigitRun(t, k) <= 5
                                  /\ WordBoundary(t, k + DigitRun(t, k) - 1) } }

\* parse_price_from_html (199-232): the smallest price found, or None
parse_price_from_html(html_text) ==
    IF html_text = "" THEN NoneV
    ELSE LET text  == clean_text(html_text)
             nums  == CurrencyNumbers(text, 1)
             nums2 == StandaloneNumbers(text)
         IN  IF nums # {} THEN Some(Min(nums))
             ELSE IF nums2 # {} THEN Some(Min(nums2))
             ELSE NoneV

(***************************************************************************)
(* Candidates.  A scraper returns {site, title, url, price}; the keys that *)
(* enrichment and scoring add later start out with the value dict.get      *)
(* gives for a missing key.                                                *)
(***************************************************************************)
Candidate(site, title, url) ==
    [ site |-> site, title |-> title, url |-> url, price |-> NoneV,
      full_text |-> "", page_price |-> NoneV, jeans |-> NoneV,
      inferred_text_size |-> "", inferred_child_size |-> NoneV,
      rating |-> 0, breakdown |-> <<>>, price_norm |-> NoneV ]

(***************************************************************************)
(* PRODUCT PAGE FETCH (326-370).  html is what http_get(url) returned:     *)
(* None, or the page, given by its visible text.                           *)
(***************************************************************************)
SizeTokens == {"xs", "s", "m", "l", "xl", "xxl"}

\* re.findall(r'\b[a-zA-Z]{1,3}\b|\b\d{2,3}\b', full_text)
SizeToks(full_text) ==
    SelectSeq(Words(full_text),
              LAMBDA w : \/ Len(w) <= 3 /\ \A i \in 1..Len(w) : IsAsciiLetter(At(w, i))
                         \/ Len(w) >= 2 /\ Len(w) <= 3 /\ IsDigitStr(w))

\* re.match(r'^[89]\d$|^1[0-7]\d$', tok)
IsChildSizeTok(w) ==
    \/ Len(w) = 2 /\ At(w, 1) \in {"8", "9"} /\ IsDigit(At(w, 2))
    \/ Len(w) = 3 /\ At(w, 1) = "1" /\ IndexOf(At(w, 2), "01234567") > 0 /\ IsDigit(At(w, 3))

\* `for tok in tokens: if ...: ...; break`: the first of the tokens that
\* pass the test, as an optional value
FirstThat(passing) ==
    IF passing = <<>> THEN NoneV ELSE Some(Head(passing))

IsSizeTok(w) == Lower(w) \in SizeTokens

\* 343-349: the page's text and the price found in it
EnrichPrice(prod, full_text, price) ==
    [prod EXCEPT !.full_text = full_text,
                 !.page_price = IF IsNone(price) THEN prod.price ELSE price]

\* 351-368: the jeans size, else the first letter size, else the first
\* child size among the tokens
EnrichSizes(base, jeans, sizetok, childtok) ==
    IF ~IsNone(jeans)
    THEN [base EXCEPT !.jeans = jeans,
                      !.inferred_text_size =
                          IF Get(jeans).waist # 0
                          THEN waist_to_text_size(Get(jeans).waist)
                          ELSE ""]
    ELSE IF ~IsNone(sizetok)
    THEN [base EXCEPT !.inferred_text_size = Upper(Get(sizetok))]
    ELSE IF ~IsNone(childtok)
    THEN [base EXCEPT !.inferred_child_size = Some(ToInt(Get(childtok)))]
    ELSE base

\* 340-368: the keys added from the text of title and page
EnrichFromText(prod, full_text) ==
    EnrichSizes(EnrichPrice(prod, full_text, parse_price_from_html(full_text)),
                parse_jeans_size_from_text(full_text),
                FirstThat(SelectSeq(SizeToks(full_text), IsSizeTok)),
                FirstThat(SelectSeq(SizeToks(full_text), IsChildSizeTok)))

enrich_product_with_page_info(prod, html) ==
    IF prod.url = "" \/ IsNone(html) \/ Get(html) = ""
    THEN [prod EXCEPT !.full_text = prod.title, !.page_price = prod.price]
    ELSE EnrichFromText(prod, clean_text(prod.title \o " " \o Get(html)))

(***************************************************************************)
(* SCORING (374-553), in hundredths of a point                             *)
(***************************************************************************)
WEIGHTS ==
    [ item |-> 3000, brand |-> 2000, style |-> 1500, gender |-> 1000,
      kids |-> 1500, color |-> 500, size |-> 1000, price |-> 1000 ]

\* parse_boolean_input (60-70); a bool or None passes through
parse_boolean_input(v) ==
    IF v \in {"True", "False"} THEN v
    ELSE IF v = "None" THEN "None"
    ELSE LET s == Lower(Strip(v))
         IN  IF s \in {"true", "ja", "yes", "1"} THEN "True"
             ELSE IF s \in {"false", "nej", "no", "0"} THEN "False"
             ELSE "None"

\* round(a / b) for a >= 0, b > 0.  On an exact half the code's result is
\* decided by binary floating point (round(score, 2) of a product of floats);
\* half-to-even stands for it here.
RoundDiv(a, b) ==
    LET q == a \div b
        r == a % b
    IN  IF 2 * r > b THEN q + 1
        ELSE IF 2 * r < b THEN q
        ELSE IF q % 2 = 0 THEN q ELSE q + 1

\* compute_price_score raises ZeroDivisionError: ratio = diff / pm with pm = 0
PriceScoreRaises(page_price, price_max) ==
    /\ ~IsNone(price_max) /\ ~IsNone(page_price)
    /\ Get(price_max) = 0 /\ Get(page_price) > 0

\* price points without the linear decrease: nothing over the ceiling
PriceScoreStep(page_price, price_max) ==
    IF IsNone(price_max) \/ IsNone(page_price) THEN 0
    ELSE IF Get(page_price) <= Get(price_max) THEN WEIGHTS.price ELSE 0

\* compute_price_score (385-405), for price_max >= 0
compute_price_score(page_price, price_max) ==
    IF IsNone(price_max) \/ IsNone(page_price) THEN 0
    ELSE LET p  == Get(page_price)
             pm == Get(price_max)
         IN  IF p <= pm THEN WEIGHTS.price
             ELSE IF p >= 2 * pm THEN 0
             ELSE RoundDiv(WEIGHTS.price * (2 * pm - p), pm)

\* 450-459: the gender the text suggests ("" is None)
InferGender(t, prod) ==
    LET explicit == IF AnyIn(SynonymsOf("herr"), t) THEN "herr"
                    ELSE IF AnyIn(SynonymsOf("dam"), t) THEN "dam"
                    ELSE ""
    IN  IF explicit = "" /\ prod.inferred_text_size # "" THEN "herr/dam" ELSE explicit

\* 462: the gender veto
GenderVeto(gender, inferred_gender) ==
    gender # "" /\ inferred_gender # "" /\ inferred_gender \notin {gender, "herr/dam"}

\* 466-475: the gender points and the gender_match entry; gmatch is
\* text_contains_term(t, gender)
GenderPoints(gmatch, inferred_gender) ==
    IF gmatch THEN WEIGHTS.gender
    ELSE IF inferred_gender = "herr/dam" THEN WEIGHTS.gender \div 2
    ELSE 0

GenderMatch(gmatch, inferred_gender) ==
    IF gmatch THEN "True"
    ELSE IF inferred_gender = "herr/dam" THEN "inferred_partial"
    ELSE "False"

\* 479
IsKid(t) ==
    is_kids_size_in_text(t) \/ IsSub("barn", t) \/ IsSub("kids", t) \/ IsSub("junior", t)

\* a scorer without the kids veto
KidsVetoNever(kids_filter, is_kid) == ""

\* 481-490: the kids veto, "" when there is none
KidsVeto(kids_filter, is_kid) ==
    IF kids_filter = "True" /\ ~is_kid THEN "expected_kids_but_not_kid"
    ELSE IF kids_filter = "False" /\ is_kid THEN "expected_adult_but_is_kid"
    ELSE ""

\* the kids points with the full weight for either match
KidsPointsFull(kids_filter, is_kid) ==
    IF \/ kids_filter = "True" /\ is_kid
       \/ kids_filter = "False" /\ ~is_kid
    THEN WEIGHTS.kids
    ELSE 0

\* 486, 492: the kids points when there is no veto
KidsPoints(kids_filter, is_kid) ==
    IF kids_filter = "True" /\ is_kid THEN WEIGHTS.kids
    ELSE IF kids_filter = "False" /\ ~is_kid THEN WEIGHTS.kids \div 2
    ELSE 0

\* 510-522: the size checks made before SIZE_MAP is consulted
SizeMatchedEarly(prod, t, size_filter) ==
    \/ prod.inferred_text_size # "" /\ Lower(prod.inferred_text_size) = Lower(size_filter)
    \/ /\ ~(prod.inferred_text_size # "" /\ Lower(prod.inferred_text_size) = Lower(size_filter))
       /\ \/ /\ ~IsNone(prod.jeans)
             /\ Get(prod.jeans).waist # 0
             /\ Lower(waist_to_text_size(Get(prod.jeans).waist)) = Lower(size_filter)
          \/ IsDigitStr(size_filter) /\ IsSub(size_filter, t)

\* 524-525: `for key, vals in SIZE_MAP.items()` is reached with a size asked
\* for and no size match yet; main.py defines no SIZE_MAP, so the lookup
\* raises NameError
SizeRaises(size_filter, size_matched) == size_filter # "" /\ ~size_matched

\* the early return of a veto
Vetoed(breakdown, reason) ==
    [ raised |-> FALSE, rating |-> 0, raw |-> 0,
      breakdown |-> ("veto" :> reason) @@ breakdown ]

\* an exception leaving score_product
Raised == [ raised |-> TRUE, rating |-> 0, raw |-> 0, breakdown |-> <<>> ]

\* 412-553 given what the tests of the text found: raised, or (rating,
\* breakdown); raw is the sum before the clamp
ScoreChecks(prod, filters, item_match, bmatch, smatch, inferred, gmatch, is_kid, cmatch, size_matched, price_pts) ==
    LET item        == Strip(filters.item)
        gender      == Lower(Strip(filters.gender))
        kids_filter == parse_boolean_input(filters.kids)
        color       == Strip(filters.color)
        size_filter == Strip(filters.size)
        b1 == "item_match" :> (item # "" /\ item_match)
        b3 == ("style_match" :> smatch) @@ ("brand_match" :> bmatch) @@ b1
        b4 == ("inferred_gender" :> inferred) @@ b3
        b5 == IF gender # ""
              THEN ("gender_match" :> GenderMatch(gmatch, inferred)) @@ b4
              ELSE b4
        b6 == ("is_kid_detected" :> is_kid) @@ b5
        b7 == IF color # "" THEN ("color_match" :> cmatch) @@ b6 ELSE b6
        b8 == ("size_matched" :> size_matched) @@ b7
        score == (IF item # "" THEN WEIGHTS.item ELSE 0)
                 + (IF bmatch THEN WEIGHTS.brand ELSE 0)
                 + (IF smatch THEN WEIGHTS.style ELSE 0)
                 + (IF gender # "" THEN GenderPoints(gmatch, inferred) ELSE 0)
                 + KidsPoints(kids_filter, is_kid)
                 + (IF color # "" /\ cmatch THEN WEIGHTS.color ELSE 0)
                 + (IF size_matched THEN WEIGHTS.size ELSE 0)
                 + (IF prod.url # "" THEN 100 ELSE 0)
                 + (IF prod.title # "" THEN 100 ELSE 0)
                 + price_pts
        final == IF score > 10000 THEN 10000 ELSE IF score < 0 THEN 0 ELSE score
    IN  IF item # "" /\ ~item_match THEN Vetoed(b1, "item_mismatch")
        ELSE IF GenderVeto(gender, inferred) THEN Vetoed(b4, "gender_mismatch")
        ELSE IF KidsVeto(kids_filter, is_kid) # "" THEN Vetoed(b6, KidsVeto(kids_filter, is_kid))
        ELSE IF SizeRaises(size_filter, size_matched) THEN Raised
        ELSE IF PriceScoreRaises(prod.page_price, filters.price_max) THEN Raised
        ELSE [ raised |-> FALSE, rating |-> final, raw |-> score,
               breakdown |-> ("final" :> final) @@ ("price_points" :> price_pts) @@ b8 ]

\* 418-546: the tests made on the lowercased text t
ScoreText(prod, filters, t) ==
    ScoreChecks(prod, filters,
                text_contains_term(t, Strip(filters.item)),
                Strip(filters.brand) # "" /\ text_contains_term(t, Strip(filters.brand)),
                Strip(filters.style) # "" /\ text_contains_term(t, Strip(filters.style)),
                InferGender(t, prod),
                text_contains_term(t, Lower(Strip(filters.gender))),
                IsKid(t),
                text_contains_term(t, Strip(filters.color)),
                Strip(filters.size) # "" /\ SizeMatchedEarly(prod, t, Strip(filters.size)),
                compute_price_score(prod.page_price, filters.price_max))

\* score_product (407-553)
score_product(prod, filters) ==
    ScoreText(prod, filters,
              Lower(IF prod.full_text # "" THEN prod.full_text ELSE prod.title))

(***************************************************************************)
(* SCRAPERS (238-323).  html is what http_get returned for the search URL: *)
(* None, or the page, given by its <a> elements in document order:         *)
(* href ("" when the attribute is missing), text (get_text()), title (the  *)
(* title attribute) and cls (the element matches the site's CSS selector). *)
(***************************************************************************)
Anchor(href, text, cls) == [href |-> href, text |-> text, title |-> "", cls |-> cls]

\* seq[:n]
Take(seq, n) == SubSeq(seq, 1, IF Len(seq) < n THEN Len(seq) ELSE n)

\* urljoin(base, href) for an absolute-path href ("/...") or a relative one
\* without dot segments; dir is base up to its last "/"
UrlJoin(origin, dir, href) ==
    IF StartsWith(href, "/") THEN origin \o href ELSE dir \o href

\* clean_text(a.get_text() or a.get("title") or "")
AnchorTitle(a) == clean_text(IF a.text # "" THEN a.text ELSE a.title)

RECURSIVE FirstByUrl(_, _)
\* `if url_full in seen: continue` ... `seen.add(url_full)`: the first
\* candidate of every url
FirstByUrl(cands, seen) ==
    IF cands = <<>> THEN <<>>
    ELSE IF Head(cands).url \in seen
         THEN FirstByUrl(Tail(cands), seen)
         ELSE <<Head(cands)>> \o FirstByUrl(Tail(cands), seen \cup {Head(cands).url})

\* the loop over the anchors shared by the three scrapers: skip a missing
\* href and a url already seen, append {site, title, url, price: None}.
\* kept holds the anchors that pass the scraper's filter and origin is the
\* prefix the scraper puts before an href that `absolute` does not start
\* with ("" for an href resolved with urljoin against dir).
CollectAnchors(kept, site, absolute, origin, dir) ==
    FirstByUrl([i \in 1..Len(kept) |->
                   Candidate(site, AnchorTitle(kept[i]),
                             IF absolute = "http"
                             THEN IF StartsWith(kept[i].href, "http") THEN kept[i].href
                                  ELSE UrlJoin(origin, dir, kept[i].href)
                             ELSE IF StartsWith(kept[i].href, "/") THEN origin \o kept[i].href
                                  ELSE kept[i].href)], {})

\* the anchors that carry an href
WithHref(anchors) == SelectSeq(anchors, LAMBDA a : a.href # "")

\* soup.select(css) or the anchors with an href holding "/item/"
SelectOrItemLinks(page) ==
    LET primary == SelectSeq(page, LAMBDA a : a.cls)
    IN  IF primary # <<>> THEN primary
        ELSE SelectSeq(page, LAMBDA a : a.href # "" /\ IsSub("/item/", a.href))

\* scrape_vinted (238-260)
scrape_vinted(html) ==
    IF IsNone(html) THEN <<>>
    ELSE CollectAnchors(WithHref(Take(SelectOrItemLinks(Get(html)), TOP_PER_SITE)),
                        "Vinted", "/", "https://www.vinted.se", "")

\* scrape_tradera (262-282)
scrape_tradera(html) ==
    IF IsNone(html) THEN <<>>
    ELSE CollectAnchors(WithHref(Take(SelectOrItemLinks(Get(html)), TOP_PER_SITE)),
                        "Tradera", "/", "https://www.tradera.com", "")

\* scrape_generic (284-313); html1 and html2 are the answers to the two
\* search URLs it tries in turn
scrape_generic(html1, html2, origin, dir, contains, site_name) ==
    LET html == IF ~IsNone(html1) THEN html1 ELSE html2
    IN  IF IsNone(html) THEN <<>>
        ELSE CollectAnchors(SelectSeq(Take(WithHref(Get(html)), TOP_PER_SITE * 2),
                                      LAMBDA a : contains = "" \/ IsSub(contains, a.href)),
                            site_name, "http", origin, dir)

\* SCRAPERS (316-323): the names, in order
SCRAPERS == <<"Vinted", "Sellpy", "Tradera", "Blocket", "Plick", "Facebook">>

\* SCRAPERS[name](query, filters) given the answers of the network
RunScraper(name, html1, html2) ==
    CASE name = "Vinted"   -> scrape_vinted(html1)
      [] name = "Tradera"  -> scrape_tradera(html1)
      [] name = "Sellpy"   -> scrape_generic(html1, html2, "https://www.sellpy.se",
                                             "https://www.sellpy.se/sok/", "/product/", "Sellpy")
      [] name = "Blocket"  -> scrape_generic(html1, html2, "https://www.blocket.se",
                                             "https://www.blocket.se/annonser/", "/annons/", "Blocket")
      [] name = "Plick"    -> scrape_generic(html1, html2, "https://www.plick.com",
                                             "https://www.plick.com/search/", "/p/", "Plick")
      [] name = "Facebook" -> scrape_generic(html1, html2, "https://m.facebook.com",
                                             "https://m.facebook.com/marketplace/search/",
                                             "/marketplace/item/", "Facebook Marketplace")

(***************************************************************************)
(* The network: what http_get can return for a site's search URL and for a *)
(* product page.  Every request may fail (None).                           *)
(***************************************************************************)
\* Vinted shows one listing, linked twice
VintedPage   == << Anchor("/item/1", "Barnjeans Nike", TRUE),
                   Anchor("/item/1", "Barnjeans  Nike ", TRUE) >>
TraderaPage  == << Anchor("/item/2", "Nike jeans", FALSE),
                   Anchor("/item/3", "adidas jeans", FALSE),
                   Anchor("/help", "Kundservice", FALSE) >>
\* the Vinted listing is advertised on Tradera as well, under another title
TraderaCross == << Anchor("/item/2", "Nike jeans", FALSE),
                   Anchor("https://www.vinted.se/item/1", "Nike barnjeans", FALSE) >>

SearchAnswers(name) ==
    CASE name = "Vinted"  -> {NoneV, Some(VintedPage)}
      [] name = "Tradera" -> {NoneV, Some(TraderaPage), Some(TraderaCross)}
      [] OTHER            -> {NoneV}

PageAnswers(url) ==
    CASE url = "https://www.vinted.se/item/1"   -> {Some("150 kr")}
      [] url = "https://www.tradera.com/item/2" -> {Some("350 kr")}
      [] url = "https://www.tradera.com/item/3" -> {NoneV, Some("300 kr")}
      [] OTHER                                  -> {NoneV}

(***************************************************************************)
(* The calls made: find_best_across_sites(query, filters, top_n) with the  *)
(* filters find_item_route (643-668) builds from a JSON body.              *)
(***************************************************************************)
NoFilters ==
    [ brand |-> "", item |-> "", color |-> "", style |-> "", size |-> "",
      gender |-> "", kids |-> "None", price_max |-> NoneV ]

\* 657: data.get("query") or " ".join(str(x) for x in (brand, item, color, style) if x)
RouteQuery(f) ==
    LET parts == SelectSeq(<<f.brand, f.item, f.color, f.style>>, LAMBDA x : x # "")
        Join[k \in 0..4] == IF k = 0 THEN ""
                            ELSE IF k = 1 THEN parts[1]
                            ELSE Join[k - 1] \o " " \o parts[k]
    IN  Join[Len(parts)]

\* 649-668: the call the route makes for a body without "query"
RouteCall(f) ==
    [ query |-> RouteQuery(f),
      filters |-> [f EXCEPT !.kids = parse_boolean_input(f.kids)],
      top_n |-> 6 ]

ReqEndToEnd == RouteCall([NoFilters EXCEPT !.item = "jeans", !.brand = "nike",
                                           !.price_max = Some(400), !.kids = "False"])
ReqItemOnly == RouteCall([NoFilters EXCEPT !.item = "jeans"])
ReqSized    == RouteCall([NoFilters EXCEPT !.item = "jeans", !.size = "M"])

\* a direct call with the query and the filters of ReqItemOnly and top_n = 1
ReqItemOnlyTop1 == [ReqItemOnly EXCEPT !.top_n = 1]

Requests == {ReqEndToEnd, ReqItemOnly, ReqSized, ReqItemOnlyTop1}

\* 673-675: the status find_item_route answers with
RouteStatus(top) == IF top = <<>> THEN 404 ELSE 200

(***************************************************************************)
(* Bounds of the exploration                                               *)
(***************************************************************************)
MaxCalls == 2
MaxTime == 301
\* the scrapers whose futures the exploration follows; the futures of the
\* others are taken to have completed empty-handed before any other event
Sites == {"Vinted", "Tradera"}
TickSteps == {CACHE_TTL, CACHE_TTL + 1}

(***************************************************************************)
(* State                                                                   *)
(***************************************************************************)
VARIABLES
    pc,          \* where the call in progress is: idle (no call), fetching,
                 \* search_timed_out, enriching, enrich_timed_out
    req,         \* the arguments of the current (or last) call
    pending,     \* scrapers whose future has not completed
    late,        \* scrapers that had not completed when as_completed timed out
    candidates,  \* 575: the list the scrapers' results are appended to
    epending,    \* indices of candidates whose enrichment has not completed
    enriched,    \* 597: the enriched candidates, in completion order; once
                 \* scored (604-620), with rating and breakdown
    outcome,     \* how the current (or last) call ended
    cache,       \* _cache: key -> (ts, val)
    now,         \* time.time()
    calls,       \* number of calls made
    completed,   \* history: key -> when a computing call returned, and what
    prior,       \* history: completed[key] as the current call started
    tables,      \* what the scrapers, the page enrichment, the scorer and
                 \* cache_key compute for the network and the calls above:
                 \* functions of their arguments, tabulated once
    sprod,       \* scorer run: the candidate
    sfilters,    \* scorer run: the filter set
    sstage,      \* scorer run: raw, enriched, scored
    sresult,     \* scorer run: what score_product returned
    fname,       \* single call: the function called ("" when none)
    fargs,       \* single call: its arguments
    fresult,     \* single call: None before the call, then what it returned
    lastSet      \* history: key -> time and value of the last cache_set

vars == << pc, req, pending, late, candidates, epending, enriched, outcome,
           cache, now, calls, completed, prior, tables, sprod, sfilters, sstage,
           sresult, fname, fargs, fresult, lastSet >>
coordVars == << pc, req, pending, late, candidates, epending, enriched, outcome,
                cache, now, calls, completed, prior >>
scorerVars == << sprod, sfilters, sstage, sresult >>
\* the coordinator's variables but the cache and the clock
callVars == << pc, req, pending, late, candidates, epending, enriched, outcome,
               calls, completed, prior >>
unitVars == << fname, fargs, fresult, lastSet >>

(***************************************************************************)
(* SIMPLE CACHE (26-42)                                                    *)
(***************************************************************************)
\* str(x) of a filter value
PyRepr(x) == IF x = "" THEN "None" ELSE "'" \o x \o "'"

\* 570: f"{query}|{str(filters)}"
cache_key(query, filters) ==
    query \o "|{'brand': " \o PyRepr(filters.brand)
          \o ", 'item': " \o PyRepr(filters.item)
          \o ", 'color': " \o PyRepr(filters.color)
          \o ", 'style': " \o PyRepr(filters.style)
          \o ", 'size': " \o PyRepr(filters.size)
          \o ", 'gender': " \o PyRepr(filters.gender)
          \o ", 'kids': " \o filters.kids
          \o ", 'price_max': "
          \o (IF IsNone(filters.price_max) THEN "None" ELSE ToStr(Get(filters.price_max)))
          \o "}"

\* an expiry that already counts an entry as old as the TTL
ExpiredAtTTL(ts, t) == t - ts >= CACHE_TTL

\* the entry is older than the TTL (35)
Expired(ts, t) == t - ts > CACHE_TTL

\* cache_get (29-38): the value returned (None when missing or expired) ...
cache_get(c, key, t) ==
    IF key \notin DOMAIN c THEN NoneV
    ELSE IF Expired(c[key].ts, t) THEN NoneV
    ELSE Some(c[key].val)

\* ... and the cache it leaves: an expired entry is deleted
cache_after_get(c, key, t) ==
    IF key \in DOMAIN c /\ Expired(c[key].ts, t)
    THEN [k \in DOMAIN c \ {key} |-> c[k]]
    ELSE c

\* cache_set (40-42)
cache_set(c, key, val, t) == (key :> [ts |-> t, val |-> val]) @@ c

\* 572: `if cached:` - None and the empty list both count as a miss
CacheHit(cached) == ~IsNone(cached) /\ Get(cached) # <<>>

(***************************************************************************)
(* COORDINATOR (556-635)                                                   *)
(***************************************************************************)
\* 606-618: score one enriched candidate; an exception of score_product
\* leaves rating 0.0 and breakdown {"final": 0}
StoreScore(p, r) ==
    [p EXCEPT !.rating = IF r.raised THEN 0 ELSE r.rating,
              !.breakdown = IF r.raised THEN ("final" :> 0) ELSE r.breakdown,
              !.price_norm = p.page_price]

ScoreOne(p, filters) == StoreScore(p, score_product(p, filters))

\* The functions tabulated: every scraper over the answers of its search URLs,
\* enrich_product_with_page_info over every candidate and every answer of its
\* page, the scoring over every enrichment and every filter set of a call,
\* cache_key over the calls.
Range(seq) == {seq[k] : k \in 1..Len(seq)}
ScrapeTable ==
    [n \in Sites |->
        [h \in SearchAnswers(n) \X SearchAnswers(n) |-> RunScraper(n, h[1], h[2])]]
AllCandidates ==
    UNION { UNION { Range(ScrapeTable[n][h]) : h \in DOMAIN ScrapeTable[n] } : n \in Sites }
EnrichTable ==
    [c \in AllCandidates |->
        [h \in PageAnswers(c.url) |-> enrich_product_with_page_info(c, h)]]
AllEnriched == UNION { {EnrichTable[c][h] : h \in DOMAIN EnrichTable[c]} : c \in AllCandidates }
ScoreTable ==
    [f \in {r.filters : r \in Requests} |-> [p \in AllEnriched |-> ScoreOne(p, f)]]
KeyTable == [r \in Requests |-> cache_key(r.query, r.filters)]
Tabulated ==
    [ scrape |-> ScrapeTable, enrich |-> EnrichTable, score |-> ScoreTable,
      key |-> KeyTable ]

\* 619 without the test: every scored candidate is kept
KeepsAll(p) == TRUE

\* 619: `if s > 0: scored.append(p)`
Keeps(p) == p.rating > 0

\* a sort key of the rating alone
SortKeyRatingOnly(a, b) == a.rating > b.rating

\* 627-630: sort_key(a) < sort_key(b) for (-rating, price or +inf)
SortKeyLess(a, b) ==
    \/ a.rating > b.rating
    \/ /\ a.rating = b.rating
       /\ ~IsNone(a.price_norm)
       /\ (IsNone(b.price_norm) \/ Get(a.price_norm) < Get(b.price_norm))

\* x put into the sorted list after every element that does not sort after it
RECURSIVE InsertSorted(_, _)
InsertSorted(sorted, x) ==
    IF sorted = <<>> THEN <<x>>
    ELSE IF SortKeyLess(x, Head(sorted))
         THEN <<x>> \o sorted
         ELSE <<Head(sorted)>> \o InsertSorted(Tail(sorted), x)

\* 632: scored.sort(key=sort_key), a stable sort
RECURSIVE SortScored(_)
SortScored(seq) ==
    IF seq = <<>> THEN <<>>
    ELSE InsertSorted(SortScored(SubSeq(seq, 1, Len(seq) - 1)), seq[Len(seq)])

\* 604-620: every enriched candidate with its rating and breakdown
ScoreAll(enr, filters) == [i \in 1..Len(enr) |-> tables.score[filters][enr[i]]]

\* a ranking that falls back to the scored candidates, in their order, when
\* none of them is kept
RankedWithFallback(scoredAll, top_n) ==
    IF SelectSeq(scoredAll, Keeps) = <<>>
    THEN Take(scoredAll, top_n)
    ELSE Take(SortScored(SelectSeq(scoredAll, Keeps)), top_n)

\* 619-633: the list returned for the scored candidates
Ranked(scoredAll, top_n) ==
    Take(SortScored(SelectSeq(scoredAll, Keeps)), top_n)

Returned(val, hit) == [kind |-> "returned", value |-> val, hit |-> hit]
RaisedTimeout == [kind |-> "raised", value |-> <<>>, hit |-> FALSE]
NoOutcome == [kind |-> "none", value |-> <<>>, hit |-> FALSE]

\* 570: key = cache_key(query, filters)
Key == tables.key[req]

\* the call returns val after computing it: cache_set, return
ReturnComputed(val) ==
    /\ cache' = cache_set(cache, Key, val, now)
    /\ completed' = (Key :> [at |-> now, value |-> val]) @@ completed
    /\ outcome' = Returned(val, FALSE)
    /\ pc' = "idle"

\* 570-578: a call starts; a cache hit returns at once, a miss submits every
\* scraper to the pool
Call(r) ==
    /\ pc = "idle"
    /\ calls < MaxCalls
    /\ calls' = calls + 1
    /\ req' = r
    /\ LET key    == tables.key[r]
           cached == cache_get(cache, key, now)
       IN  /\ cache' = cache_after_get(cache, key, now)
           /\ prior' = IF key \in DOMAIN completed THEN Some(completed[key]) ELSE NoneV
           /\ IF CacheHit(cached)
              THEN /\ outcome' = Returned(Get(cached), TRUE)
                   /\ pc' = "idle"
                   /\ pending' = {}
              ELSE /\ outcome' = NoOutcome
                   /\ pc' = "fetching"
                   /\ pending' = Sites
    /\ late' = {}
    /\ candidates' = <<>>
    /\ epending' = {}
    /\ enriched' = <<>>
    /\ UNCHANGED << now, completed >>

\* 579-589, 595-596: a scraper's future completes and the as_completed loop
\* takes its result; after the last one the call returns [] when nothing was
\* found and submits the enrichment of every candidate otherwise
AdapterDone(name) ==
    /\ pc = "fetching"
    /\ name \in pending
    /\ \E html1 \in SearchAnswers(name), html2 \in SearchAnswers(name) :
         LET res   == tables.scrape[name][<<html1, html2>>]
             cands == candidates \o res
         IN  /\ candidates' = cands
             /\ pending' = pending \ {name}
             /\ IF pending \ {name} # {}
                THEN UNCHANGED << pc, outcome, cache, completed, epending >>
                ELSE IF cands = <<>>
                THEN ReturnComputed(<<>>) /\ UNCHANGED epending
                ELSE /\ pc' = "enriching"
                     /\ epending' = 1..Len(cands)
                     /\ UNCHANGED << outcome, cache, completed >>
    /\ UNCHANGED << req, late, enriched, now, calls, prior >>

\* 579: as_completed(futures, timeout=30) raises TimeoutError in the `for`
\* statement, outside the try of the loop body, while futures are unfinished
SearchTimeout ==
    /\ pc = "fetching"
    /\ pending # {}
    /\ late' = pending
    /\ pc' = "search_timed_out"
    /\ UNCHANGED << req, pending, candidates, epending, enriched, outcome, cache,
                    now, calls, completed, prior >>

\* 577: leaving the `with` block on the exception waits for the running
\* scrapers (shutdown(wait=True)), whose results are dropped; then
\* TimeoutError leaves the call
SearchShutdown ==
    /\ pc = "search_timed_out"
    /\ pending' = {}
    /\ pc' = "idle"
    /\ outcome' = RaisedTimeout
    /\ UNCHANGED << req, late, candidates, epending, enriched, cache, now, calls,
                    completed, prior >>

\* 598-635: an enrichment completes and the loop appends its result; after
\* the last one the candidates are scored, filtered, sorted, cut to top_n,
\* cached and returned
EnrichDone(i) ==
    /\ pc = "enriching"
    /\ i \in epending
    /\ \E html \in PageAnswers(candidates[i].url) :
         LET enr == Append(enriched, tables.enrich[candidates[i]][html])
         IN  /\ epending' = epending \ {i}
             /\ IF epending \ {i} # {}
                THEN /\ enriched' = enr
                     /\ UNCHANGED << pc, outcome, cache, completed >>
                ELSE /\ enriched' = ScoreAll(enr, req.filters)
                     /\ ReturnComputed(Ranked(ScoreAll(enr, req.filters), req.top_n))
    /\ UNCHANGED << req, pending, late, candidates, now, calls, prior >>

\* 598: as_completed(futures, timeout=60) raises TimeoutError
EnrichTimeout ==
    /\ pc = "enriching"
    /\ epending # {}
    /\ pc' = "enrich_timed_out"
    /\ UNCHANGED << req, pending, late, candidates, epending, enriched, outcome,
                    cache, now, calls, completed, prior >>

\* 595: the `with` block waits for the running enrichments, then the
\* exception leaves the call
EnrichShutdown ==
    /\ pc = "enrich_timed_out"
    /\ epending' = {}
    /\ pc' = "idle"
    /\ outcome' = RaisedTimeout
    /\ UNCHANGED << req, pending, late, candidates, enriched, cache, now, calls,
                    completed, prior >>

\* time passes between calls
Tick(d) ==
    /\ pc = "idle"
    /\ now + d <= MaxTime
    /\ now' = now + d
    /\ UNCHANGED << pc, req, pending, late, candidates, epending, enriched, outcome,
                    cache, calls, completed, prior >>

CoordInit ==
    /\ tables = Tabulated
    /\ pc = "idle"
    /\ req = ReqItemOnly
    /\ pending = {}
    /\ late = {}
    /\ candidates = <<>>
    /\ epending = {}
    /\ enriched = <<>>
    /\ outcome = NoOutcome
    /\ cache = <<>>
    /\ now = 0
    /\ calls = 0
    /\ completed = <<>>
    /\ prior = NoneV

(***************************************************************************)
(* A run of the scorer alone: a scraped candidate is enriched from its     *)
(* page and scored the way the coordinator scores it (606-618).            *)
(***************************************************************************)
ScoreTitles ==
    { "women jacket", "jacka dam", "men jacket", "jacka herr",
      "hoodie barn", "jeans" }

ScorePages == { NoneV, Some("strl M 350 kr") }

ScoreFilters ==
    { [NoFilters EXCEPT !.item = it, !.gender = g, !.kids = k, !.size = sz] :
        it \in {"", "jeans"}, g \in {"", "herr", "dam"},
        k \in {"None", "True", "False"}, sz \in {"", "M"} }

NoResult == [ raised |-> FALSE, rating |-> 0, raw |-> 0, breakdown |-> <<>> ]

ScorerIdle ==
    /\ sprod = Candidate("", "", "")
    /\ sfilters = NoFilters
    /\ sstage = "raw"
    /\ sresult = NoResult

ScorerInit ==
    /\ sprod \in { Candidate("Tradera", t, "https://www.tradera.com/item/9") : t \in ScoreTitles }
    /\ sfilters \in ScoreFilters
    /\ sstage = "raw"
    /\ sresult = NoResult

\* 595-602: the page is fetched and the candidate enriched
ScorerEnrich ==
    /\ sstage = "raw"
    /\ \E html \in ScorePages : sprod' = enrich_product_with_page_info(sprod, html)
    /\ sstage' = "enriched"
    /\ UNCHANGED << sfilters, sresult >>

\* 606-618: score_product is called and its result, or the exception's
\* default, stored in the candidate
ScorerScore ==
    /\ sstage = "enriched"
    /\ sresult' = score_product(sprod, sfilters)
    /\ sprod' = ScoreOne(sprod, sfilters)
    /\ sstage' = "scored"
    /\ UNCHANGED sfilters

(***************************************************************************)
(* Single calls of the functions the scorer and the scrapers are built     *)
(* from, over families of arguments.                                       *)
(***************************************************************************)
MaxSmallPrice == 15

\* page_price and price_max as the scorer passes them (547-548): None or a
\* number; the ceilings are positive
PriceArgs ==
    [ page_price : {NoneV} \cup { Some(p) : p \in (0..MaxSmallPrice) \cup
                                     {299, 300, 301, 400, 450, 599, 600, 601, 999, 1000, 1001} },
      price_max  : {NoneV} \cup { Some(m) : m \in {3, 7, 300, 500} } ]

\* a text and a term of the vocabulary of one entry of SYNONYMS: its key
\* and its synonyms
TermArgs ==
    UNION { [ text : {K} \cup Range(SYNONYMS[K]), term : {K} \cup Range(SYNONYMS[K]) ] :
              K \in DOMAIN SYNONYMS }

MaxAnchors == 18

\* the path under which a site lists its items: the `contains` argument of
\* the scrape_generic instances (316-323), "/item/" for Vinted and Tradera
ItemPath(name) ==
    CASE name = "Sellpy"   -> "/product/"
      [] name = "Blocket"  -> "/annons/"
      [] name = "Plick"    -> "/p/"
      [] name = "Facebook" -> "/marketplace/item/"
      [] OTHER             -> "/item/"

\* a search page of n item links; with dup every item is linked twice in a
\* row; cls tells whether the links match the site's CSS selector
SearchPage(name, n, dup, cls) ==
    [i \in 1..n |->
        Anchor(ItemPath(name) \o ToStr(IF dup THEN (i + 1) \div 2 ELSE i),
               "Jeans " \o ToStr(i), cls)]

\* a scraper and the page its search request is answered with
ScrapeArgs ==
    [ name : Range(SCRAPERS), n : 0..MaxAnchors, dup : BOOLEAN, cls : BOOLEAN ]

UnitIdle ==
    /\ fname = ""
    /\ fargs = <<>>
    /\ fresult = NoneV
    /\ lastSet = <<>>

FnInit ==
    /\ fresult = NoneV
    /\ lastSet = <<>>
    /\ \/ fname = "compute_price_score" /\ fargs \in PriceArgs
       \/ fname = "text_contains_term" /\ fargs \in TermArgs
       \/ fname = "scraper" /\ fargs \in ScrapeArgs

\* compute_price_score(page_price, price_max) is called
ApplyPrice ==
    /\ fname = "compute_price_score"
    /\ IsNone(fresult)
    /\ fresult' = Some(compute_price_score(fargs.page_price, fargs.price_max))
    /\ UNCHANGED << fname, fargs, lastSet >>

\* text_contains_term(title, term) is called
ApplyTerm ==
    /\ fname = "text_contains_term"
    /\ IsNone(fresult)
    /\ fresult' = Some(text_contains_term(fargs.text, fargs.term))
    /\ UNCHANGED << fname, fargs, lastSet >>

\* SCRAPERS[name](query, filters) is called and its first search request is
\* answered with the page
ApplyScraper ==
    /\ fname = "scraper"
    /\ IsNone(fresult)
    /\ fresult' = Some(RunScraper(fargs.name,
                                  Some(SearchPage(fargs.name, fargs.n, fargs.dup, fargs.cls)),
                                  NoneV))
    /\ UNCHANGED << fname, fargs, lastSet >>

(***************************************************************************)
(* The cache on its own: cache_set and cache_get called with keys and      *)
(* values of any kind as time passes.                                      *)
(***************************************************************************)
CacheKeys == {"k1", "k2"}
\* lists of results; the empty list is a value like the others
CacheVals == { <<>>, <<"a">>, <<"b">> }

\* cache_set(key, val) at time.time() = now
CacheSet(key, val) ==
    /\ cache' = cache_set(cache, key, val, now)
    /\ lastSet' = (key :> [at |-> now, val |-> val]) @@ lastSet
    /\ fname' = "cache_set"
    /\ fargs' = [key |-> key, val |-> val, at |-> now]
    /\ fresult' = NoneV
    /\ UNCHANGED now

\* cache_get(key) at time.time() = now
CacheGet(key) ==
    /\ fresult' = Some(cache_get(cache, key, now))
    /\ cache' = cache_after_get(cache, key, now)
    /\ fname' = "cache_get"
    /\ fargs' = [key |-> key, at |-> now]
    /\ UNCHANGED << now, lastSet >>

(***************************************************************************)
(* Specifications                                                          *)
(***************************************************************************)
Init == CoordInit /\ ScorerIdle /\ UnitIdle

Next ==
    \/ \E r \in Requests : Call(r) /\ UNCHANGED << scorerVars, tables, unitVars >>
    \/ \E name \in pending : AdapterDone(name) /\ UNCHANGED << scorerVars, tables, unitVars >>
    \/ SearchTimeout /\ UNCHANGED << scorerVars, tables, unitVars >>
    \/ SearchShutdown /\ UNCHANGED << scorerVars, tables, unitVars >>
    \/ \E i \in epending : EnrichDone(i) /\ UNCHANGED << scorerVars, tables, unitVars >>
    \/ EnrichTimeout /\ UNCHANGED << scorerVars, tables, unitVars >>
    \/ EnrichShutdown /\ UNCHANGED << scorerVars, tables, unitVars >>
    \/ \E d \in TickSteps : Tick(d) /\ UNCHANGED << scorerVars, tables, unitVars >>

\* the coordinator serving calls
Spec == Init /\ [][Next]_vars

ScoreInit == CoordInit /\ ScorerInit /\ UnitIdle

ScoreNext ==
    \/ ScorerEnrich /\ UNCHANGED << coordVars, tables, unitVars >>
    \/ ScorerScore /\ UNCHANGED << coordVars, tables, unitVars >>

\* the scorer over a family of candidates and filter sets
ScoreSpec == ScoreInit /\ [][ScoreNext]_vars

FnSpecInit == CoordInit /\ ScorerIdle /\ FnInit

FnNext ==
    \/ ApplyPrice /\ UNCHANGED << coordVars, scorerVars, tables >>
    \/ ApplyTerm /\ UNCHANGED << coordVars, scorerVars, tables >>
    \/ ApplyScraper /\ UNCHANGED << coordVars, scorerVars, tables >>

\* single calls of the pure functions
FnSpec == FnSpecInit /\ [][FnNext]_vars

CacheNext ==
    \/ \E key \in CacheKeys, val \in CacheVals :
          CacheSet(key, val) /\ UNCHANGED << callVars, scorerVars, tables >>
    \/ \E key \in CacheKeys : CacheGet(key) /\ UNCHANGED << callVars, scorerVars, tables >>
    \/ \E d \in TickSteps : Tick(d) /\ UNCHANGED << scorerVars, tables, unitVars >>

\* the cache under any sequence of cache_set and cache_get
CacheSpec == Init /\ [][CacheNext]_vars

(***************************************************************************)
(* Properties                                                              *)
(***************************************************************************)
\* the veto recorded in a breakdown, "" when there is none
VetoOf(breakdown) == IF "veto" \in DOMAIN breakdown THEN breakdown["veto"] ELSE ""

\* the call in `req` computed its result and returned it
ComputedReturn == pc = "idle" /\ outcome.kind = "returned" /\ ~outcome.hit

\* candidates were scored and every one of them was vetoed
AllVetoed ==
    /\ enriched # <<>>
    /\ \A i \in 1..Len(enriched) : VetoOf(enriched[i].breakdown) # ""

\* list holds a candidate with this title and this page price
Listed(list, title, price) ==
    \E i \in 1..Len(list) : list[i].title = title /\ list[i].page_price = Some(price)

\* C1: no two candidates of a returned list share a url.
C1_NoSharedUrl ==
    outcome.kind = "returned" =>
        \A i, j \in 1..Len(outcome.value) :
            i # j => outcome.value[i].url # outcome.value[j].url

\* C2: a call whose search stage timed out while scrapers were still running,
\* with candidates of the other scrapers collected, returns a list.
C2_TimeoutStillReturns ==
    (pc = "idle" /\ late # {} /\ candidates # <<>>) => outcome.kind = "returned"

C4_SizeIsSoft ==
    ( /\ sstage = "scored"
      /\ Strip(sfilters.size) # ""
      /\ ~SizeMatchedEarly(sprod, Lower(sprod.full_text), Strip(sfilters.size)) )
    => sprod.rating = ScoreOne(sprod, [sfilters EXCEPT !.size = ""]).rating

\* the case of C5: the call {item: jeans, brand: nike, price_max: 400,
\* kids: false} scored the three listings with their page prices
C5_Case ==
    /\ ComputedReturn
    /\ req = ReqEndToEnd
    /\ Len(enriched) = 3
    /\ Listed(enriched, "Nike jeans", 350)
    /\ Listed(enriched, "adidas jeans", 300)
    /\ Listed(enriched, "Barnjeans Nike", 150)

\* C5: in that case the returned list has the nike adult listing first, the
\* adidas listing after it, and not the kids listing.
C5_EndToEndRanking ==
    C5_Case =>
        /\ Len(outcome.value) >= 2
        /\ outcome.value[1].title = "Nike jeans"
        /\ \E j \in 2..Len(outcome.value) : outcome.value[j].title = "adidas jeans"
        /\ \A j \in 1..Len(outcome.value) : outcome.value[j].title # "Barnjeans Nike"

C5_Witness == C5_Case /\ Len(outcome.value) = 2

\* the words of the two gender vocabularies (SYNONYMS 105-106)
HerrWords == {"herr", "man", "men", "male"}
DamWords == {"dam", "kvinna", "women", "female"}
WordsOfText(text) == {Words(Lower(text))[k] : k \in 1..Len(Words(Lower(text)))}

\* the scored candidate's text has gendered words, all of the gender g
OnlyVocabularyOf(g) ==
    LET own   == IF g = "herr" THEN HerrWords ELSE DamWords
        other == IF g = "herr" THEN DamWords ELSE HerrWords
    IN  /\ WordsOfText(sprod.full_text) \cap own # {}
        /\ WordsOfText(sprod.full_text) \cap other = {}

\* C6: for gender herr and for gender dam alike, a text with the vocabulary
\* of the requested gender only is not vetoed with gender_mismatch and, when
\* no other check ends the scoring, gets the full gender weight.
C6_GenderSymmetric ==
    \A g \in {"herr", "dam"} :
        ( /\ sstage = "scored"
          /\ Lower(Strip(sfilters.gender)) = g
          /\ OnlyVocabularyOf(g) )
        => /\ VetoOf(sresult.breakdown) # "gender_mismatch"
           /\ (~sresult.raised /\ VetoOf(sresult.breakdown) = "")
                 => sresult.breakdown["gender_match"] = "True"

\* the scored candidate passed the item and the gender check
PastGenderCheck ==
    /\ sstage = "scored"
    /\ VetoOf(sresult.breakdown) \notin {"item_mismatch", "gender_mismatch"}

\* the kids part of the scoring, given the two veto labels: for a candidate
\* past the item and gender checks the veto is recorded with rating 0, and
\* without a veto the raw score is the score for kids unknown plus 15 (kids
\* asked and detected), 7.5 (adults asked, no kids item) or 0
KidsScoring(not_kid_label, is_kid_label) ==
    PastGenderCheck =>
        LET kids   == parse_boolean_input(sfilters.kids)
            is_kid == IsKid(Lower(sprod.full_text))
            base   == score_product(sprod, [sfilters EXCEPT !.kids = "None"])
        IN  IF kids = "True" /\ ~is_kid
            THEN /\ ~sresult.raised /\ sresult.rating = 0 /\ sprod.rating = 0
                 /\ VetoOf(sresult.breakdown) = not_kid_label
            ELSE IF kids = "False" /\ is_kid
            THEN /\ ~sresult.raised /\ sresult.rating = 0 /\ sprod.rating = 0
                 /\ VetoOf(sresult.breakdown) = is_kid_label
            ELSE /\ VetoOf(sresult.breakdown) = ""
                 /\ sresult.raised = base.raised
                 /\ ~sresult.raised =>
                       sresult.raw = base.raw
                           + (IF kids = "True" THEN 1500
                              ELSE IF kids = "False" THEN 750 ELSE 0)

\* C7 (as the code has it): the kids veto is recorded as
\* "expected_kids_but_not_kid" and "expected_adult_but_is_kid", for a
\* candidate that passed the item and gender checks; otherwise no veto is
\* recorded and the kids weight 15 / 7.5 / 0 is part of the score.
C7_KidsVetoAndWeight ==
    KidsScoring("expected_kids_but_not_kid", "expected_adult_but_is_kid")

C7_Witness ==
    /\ PastGenderCheck
    /\ parse_boolean_input(sfilters.kids) = "True"
    /\ ~IsKid(Lower(sprod.full_text))
    /\ VetoOf(sresult.breakdown) = "expected_kids_but_not_kid"

\* C7 (as stated): the kids veto is recorded as
\* "expected_child_but_not_detected" and "expected_adult_but_child_detected".
C7_StatedLabels ==
    KidsScoring("expected_child_but_not_detected", "expected_adult_but_child_detected")

\* a's page price sorts no later than b's; an absent price sorts last
PriceNoLater(a, b) ==
    \/ IsNone(b.page_price)
    \/ ~IsNone(a.page_price) /\ Get(a.page_price) <= Get(b.page_price)

\* C8: a returned list is sorted by rating, highest first, and among equal
\* ratings by page price, lowest first, an absent price last.
C8_Sorted ==
    outcome.kind = "returned" =>
        \A i \in 1..(Len(outcome.value) - 1) :
            LET a == outcome.value[i]
                b == outcome.value[i + 1]
            IN  /\ a.rating >= b.rating
                /\ a.rating = b.rating => PriceNoLater(a, b)

C8_Witness ==
    /\ ComputedReturn
    /\ Len(outcome.value) = 3
    /\ outcome.value[1].rating = outcome.value[3].rating
    /\ ~IsNone(outcome.value[1].page_price)
    /\ ~IsNone(outcome.value[2].page_price)
    /\ Get(outcome.value[1].page_price) < Get(outcome.value[2].page_price)
    /\ IsNone(outcome.value[3].page_price)
    /\ enriched[1] = outcome.value[3]

\* C9: when a scored candidate of the call is not vetoed, every candidate of
\* the returned list and of the value stored in the cache has a rating above
\* 0 and no veto.
C9_NoVetoedInResult ==
    ( /\ ComputedReturn
      /\ \E i \in 1..Len(enriched) : VetoOf(enriched[i].breakdown) = "" )
    => /\ cache[Key].val = outcome.value
       /\ \A j \in 1..Len(outcome.value) :
              /\ outcome.value[j].rating > 0
              /\ VetoOf(outcome.value[j].breakdown) = ""

C9_Witness ==
    /\ ComputedReturn
    /\ outcome.value # <<>>
    /\ \E i \in 1..Len(enriched) : VetoOf(enriched[i].breakdown) # ""
    /\ \E i \in 1..Len(enriched) : VetoOf(enriched[i].breakdown) = ""

\* C10: a call that starts within CACHE_TTL of the completion of a call with
\* the same query and filters dispatches nothing and returns what that call
\* returned, the empty list included.
C10_ServedFromCache ==
    (calls > 0 /\ ~IsNone(prior) /\ now - Get(prior).at <= CACHE_TTL) =>
        /\ pc = "idle"
        /\ outcome = Returned(Get(prior).value, TRUE)


(***************************************************************************)
(* Price points                                                            *)
(***************************************************************************)
PriceApplied == fname = "compute_price_score" /\ ~IsNone(fresult)

PriceBothGiven == ~IsNone(fargs.page_price) /\ ~IsNone(fargs.price_max)

\* 10 * max(0, 1 - (p - m) / m) in hundredths of a point, times m
LinearTimesM(p, m) == IF p >= 2 * m THEN 0 ELSE WEIGHTS.price * (2 * m - p)

Dist(a, b) == IF a >= b THEN a - b ELSE b - a

\* C11: for a page_price p and a price_max m > 0 the price component is the
\* full weight 10 when p <= m; when p > m it is 10 * max(0, 1 - (p - m)/m)
\* rounded to two decimals, 0 from p = 2m on; it never grows with p; and it is
\* 0 when page_price or price_max is absent.
C11_PricePoints ==
    PriceApplied =>
        LET r == Get(fresult)
        IN  IF ~PriceBothGiven THEN r = 0
            ELSE LET p == Get(fargs.page_price)
                     m == Get(fargs.price_max)
                 IN  /\ p <= m => r = WEIGHTS.price
                     /\ p > m => 2 * Dist(r * m, LinearTimesM(p, m)) <= m
                     /\ p >= 2 * m => r = 0
                     /\ \A a \in PriceArgs :
                            /\ a.price_max = fargs.price_max
                            /\ ~IsNone(a.page_price)
                            /\ Get(a.page_price) >= p
                            => compute_price_score(a.page_price, a.price_max) <= r

\* C11 (reached): a price over the ceiling got part of the weight, and the
\* two decimals kept are not the exact value of the linear formula
C11_Witness ==
    /\ PriceApplied /\ PriceBothGiven
    /\ Get(fargs.page_price) > Get(fargs.price_max)
    /\ Get(fresult) > 0 /\ Get(fresult) < WEIGHTS.price
    /\ Get(fresult) * Get(fargs.price_max)
           # LinearTimesM(Get(fargs.page_price), Get(fargs.price_max))

\* C11 (as stated): over the ceiling the component equals
\* 10 * max(0, 1 - (p - m)/m) exactly
C11_ExactLinear ==
    PriceApplied /\ PriceBothGiven /\ Get(fargs.page_price) > Get(fargs.price_max)
        => Get(fresult) * Get(fargs.price_max)
              = LinearTimesM(Get(fargs.page_price), Get(fargs.price_max))


(***************************************************************************)
(* Range of the rating                                                     *)
(***************************************************************************)
\* C12: for every candidate and every filter set score_product returns a
\* rating, the rating lies within [0, 100], and it is 0 whenever the
\* breakdown records a veto.
C12_RatingInRange ==
    sstage = "scored" =>
        /\ ~sresult.raised
        /\ sresult.rating >= 0 /\ sresult.rating <= 100 * 100
        /\ VetoOf(sresult.breakdown) # "" => sresult.rating = 0


(***************************************************************************)
(* Synonyms                                                                *)
(***************************************************************************)
TermApplied == fname = "text_contains_term" /\ ~IsNone(fresult)

\* C13: for every key K of SYNONYMS and every synonym S of K,
\* text_contains_term(text, S) is true for a text that contains K and not S,
\* as text_contains_term(text, K) is true for a text that contains S.
C13_Bidirectional ==
    TermApplied =>
        \A K \in DOMAIN SYNONYMS :
            /\ ( /\ fargs.term \in Range(SYNONYMS[K])
                 /\ IsSub(K, Lower(fargs.text))
                 /\ ~IsSub(Lower(fargs.term), Lower(fargs.text)) )
               => Get(fresult) = TRUE
            /\ ( /\ fargs.term = K
                 /\ \E S \in Range(SYNONYMS[K]) : IsSub(S, Lower(fargs.text)) )
               => Get(fresult) = TRUE


(***************************************************************************)
(* Failure isolation                                                       *)
(***************************************************************************)
\* a call that missed the cache has ended
ComputedEnd == pc = "idle" /\ calls > 0 /\ outcome.kind # "none" /\ ~outcome.hit

\* C14: whichever scrapers and page fetches fail (an exception, a timeout,
\* an HTTP error), the call does not raise, every candidate of the scrapers
\* that answered is enriched and scored, and the list returned is the ranking
\* of those candidates.
C14_FailuresIsolated ==
    ComputedEnd =>
        /\ outcome.kind = "returned"
        /\ Len(enriched) = Len(candidates)
        /\ outcome.value = Ranked(enriched, req.top_n)


(***************************************************************************)
(* The scrapers' lists                                                     *)
(***************************************************************************)
ScraperApplied == fname = "scraper" /\ ~IsNone(fresult)

\* C15: every scraper of SCRAPERS returns, for every page, at most
\* TOP_PER_SITE candidates, no two of them with the same url.
C15_CappedAndDistinct ==
    ScraperApplied =>
        /\ Len(Get(fresult)) <= TOP_PER_SITE
        /\ \A i, j \in 1..Len(Get(fresult)) :
               i # j => Get(fresult)[i].url # Get(fresult)[j].url


(***************************************************************************)
(* Timeout of the enrichment stage                                         *)
(***************************************************************************)
\* the call ended with enrichments unfinished: the enrichment stage timed out
EnrichmentCutShort ==
    pc = "idle" /\ late = {} /\ candidates # <<>> /\ Len(enriched) < Len(candidates)

\* C16: a call whose enrichment stage timed out with enrichments unfinished
\* does not raise but returns a list.
C16_EnrichTimeoutStillReturns ==
    EnrichmentCutShort => outcome.kind = "returned"


(***************************************************************************)
(* Cache expiry                                                            *)
(***************************************************************************)
\* cache_get was the last call made on the cache
GetReturned == fname = "cache_get"

\* the key read was set, and the age of its last cache_set at the read
WasSet == fargs.key \in DOMAIN lastSet
AgeAtGet == fargs.at - lastSet[fargs.key].at

\* C17: cache_get never returns a value set more than CACHE_TTL earlier: for
\* such a key it returns None and removes the entry; for a key set at most
\* CACHE_TTL ago it returns the value set last; for a key never set, None.
C17_CacheExpiry ==
    GetReturned =>
        /\ ~WasSet => Get(fresult) = NoneV
        /\ (WasSet /\ AgeAtGet > CACHE_TTL) =>
               Get(fresult) = NoneV /\ fargs.key \notin DOMAIN cache
        /\ (WasSet /\ AgeAtGet <= CACHE_TTL) =>
               Get(fresult) = Some(lastSet[fargs.key].val)

\* C17 (reached): a key was read more than CACHE_TTL after it was set, while
\* another key of the cache was still fresh
C17_Witness ==
    /\ GetReturned /\ WasSet /\ AgeAtGet > CACHE_TTL
    /\ Get(fresult) = NoneV
    /\ \E k \in DOMAIN cache : fargs.at - cache[k].ts <= CACHE_TTL


(***************************************************************************)
(* Order of completion                                                     *)
(***************************************************************************)
\* the "site" a scraper of SCRAPERS writes into its candidates
SiteOf(name) == IF name = "Facebook" THEN "Facebook Marketplace" ELSE name

\* the candidates as they are collected when the scrapers complete in the
\* order of SCRAPERS: each scraper's list, in its own order, one after another
InSubmitOrder(cands) ==
    LET Upto[k \in 0..Len(SCRAPERS)] ==
            IF k = 0 THEN <<>>
            ELSE Upto[k - 1] \o SelectSeq(cands, LAMBDA c : c.site = SiteOf(SCRAPERS[k]))
    IN  Upto[Len(SCRAPERS)]

\* the scored enrichment of candidate c (a scraper lists a url once)
ScoredOf(c) == CHOOSE e \in Range(enriched) : e.site = c.site /\ e.url = c.url

\* what the call returns for the same scraper outputs and the same page
\* contents when the scrapers complete in the order of SCRAPERS and the
\* enrichments in the order of the candidates
InOrderResult ==
    Ranked([i \in 1..Len(candidates) |-> ScoredOf(InSubmitOrder(candidates)[i])], req.top_n)

\* C18: the list a call returns does not depend on the order in which the
\* scrapers and the enrichments complete: it is the list returned when they
\* complete in order.
C18_OrderIndependent ==
    (ComputedReturn /\ enriched # <<>>) => outcome.value = InOrderResult


(***************************************************************************)
(* Length of the returned list                                             *)
(***************************************************************************)
\* C19: a call returns at most top_n candidates, also when it is answered
\* from the cache after a call with the same query and filters and another
\* top_n.
C19_AtMostTopN ==
    outcome.kind = "returned" => Len(outcome.value) <= req.top_n

=============================================================================
